---- MODULE Spec2Model ----
(***************************************************************************)
(* Pattern Worksheet Generator (app.py): the allocator                     *)
(* distribute_questions, the block composition of create_worksheet and the *)
(* two request handlers upload_database and generate_worksheet around the  *)
(* process-wide CURRENT_DB_PATH.                                           *)
(*                                                                         *)
(* Three specifications share the module:                                  *)
(*   SpecAlloc   distribute_questions applied to bounded inputs            *)
(*   SpecLayout  create_worksheet applied to bounded inputs                *)
(*   Spec        sequences of /upload_database and /generate requests      *)
(***************************************************************************)
EXTENDS Integers, Sequences, FiniteSets, TLC

VARIABLES
    selected_patterns,  \* SpecAlloc: argument of distribute_questions
    target_count,       \* SpecAlloc: argument of distribute_questions
    outcome,            \* SpecAlloc: what the call did (returned / raised)
    pattern_data,       \* SpecLayout: WorksheetContent given to create_worksheet
    title_patterns,     \* SpecLayout: selected_patterns given to create_worksheet
    story,              \* SpecLayout: the block list create_worksheet built
    CURRENT_DB_PATH,    \* Spec: the module global (None or the upload path)
    uploaded_database,  \* Spec: contents of uploads/uploaded_database.xlsx
    n_outputs,          \* Spec: number of PDFs written to the outputs folder
    request,            \* Spec: the request the last handler run served
    response,           \* Spec: the response it returned
    calls               \* Spec: the functions it called, in order

vars == <<selected_patterns, target_count, outcome, pattern_data, title_patterns,
          story, CURRENT_DB_PATH, uploaded_database, n_outputs, request,
          response, calls>>

allocVars == <<selected_patterns, target_count, outcome>>
layoutVars == <<pattern_data, title_patterns, story>>
httpVars == <<CURRENT_DB_PATH, uploaded_database, n_outputs, request, response, calls>>

----------------------------------------------------------------------------
(* Bounds of the model *)

\* SpecAlloc: at most this many patterns in one call
MaxPatterns == 2
\* SpecAlloc: a pattern holds no item or this many, split over its three sections
MaxItems == 3
\* SpecAlloc: target_count ranges over 0..MaxTarget
MaxTarget == 6

----------------------------------------------------------------------------
(* Helpers *)

Min(a, b) == IF a < b THEN a ELSE b
Max(a, b) == IF a > b THEN a ELSE b

SectionSet == {"speaking1", "speaking2", "unscramble"}

\* a slice that keeps the whole list
PySliceDropsNothing(s, k) == s

\* Python's s[:k]: the first k elements, all of s when k >= len(s); a
\* negative k counts from the end (all but the last -k elements).
PySlice(s, k) ==
    IF k >= 0 THEN SubSeq(s, 1, Min(k, Len(s)))
    ELSE SubSeq(s, 1, Max(Len(s) + k, 0))

----------------------------------------------------------------------------
(* distribute_questions *)

\* a take_count that compares with <= instead of <
TakeCountOffByOne(i, items_per_pattern, remainder) ==
    items_per_pattern + (IF i <= remainder THEN 1 ELSE 0)

\* a take_count that forgets the remainder
TakeCountNoRemainder(i, items_per_pattern, remainder) == items_per_pattern

\* take_count of the pattern at 0-based position i
TakeCount(i, items_per_pattern, remainder) ==
    items_per_pattern + (IF i < remainder THEN 1 ELSE 0)

\* the inner loop: result[section].extend(pattern[section][:take_count])
\* for the patterns at 1-based positions i..len(patterns)
RECURSIVE ExtendFrom(_, _, _, _, _, _)
ExtendFrom(acc, patterns, section, i, items_per_pattern, remainder) ==
    IF i > Len(patterns) THEN acc
    ELSE ExtendFrom(
            acc \o PySlice(patterns[i][section],
                           TakeCount(i - 1, items_per_pattern, remainder)),
            patterns, section, i + 1, items_per_pattern, remainder)

\* a pass that walks the patterns from the last to the first
SectionItemsReversed(patterns, section, target) ==
    LET n == Len(patterns)
        rev == [i \in 1..n |-> patterns[n + 1 - i]]
    IN  PySlice(ExtendFrom(<<>>, rev, section, 1, target \div n, target % n), target)

\* one pass of the outer loop: the inner loop, then result[section][:target_count]
SectionItems(patterns, section, target) ==
    PySlice(ExtendFrom(<<>>, patterns, section, 1,
                       target \div Len(patterns), target % Len(patterns)),
            target)

\* The call as a whole. With no pattern, target_count // pattern_count
\* raises ZeroDivisionError before anything is returned.
distribute_questions(patterns, target) ==
    IF Len(patterns) = 0
    THEN [raised |-> "ZeroDivisionError"]
    ELSE [raised |-> "None",
          result |-> [s \in SectionSet |-> SectionItems(patterns, s, target)]]

----------------------------------------------------------------------------
(* SpecAlloc: inputs of distribute_questions *)

\* item k of section s of the pattern numbered num; an Unscramble item is
\* the (korean, words) pair load_patterns_from_excel builds
Item(s, num, k) ==
    IF s = "unscramble" THEN <<<<num, k>>, <<"words", num, k>>>> ELSE <<num, k>>

ItemPattern(s, item) == IF s = "unscramble" THEN item[1][1] ELSE item[1]
ItemIndex(s, item) == IF s = "unscramble" THEN item[1][2] ELSE item[2]

\* a pattern record with the given number of items in each section
MakePattern(num, lens) ==
    [pattern_num |-> num,
     pattern_name |-> <<"name", num>>,
     unit |-> "Level A",
     speaking1 |-> [k \in 1..lens[1] |-> Item("speaking1", num, k)],
     speaking2 |-> [k \in 1..lens[2] |-> Item("speaking2", num, k)],
     unscramble |-> [k \in 1..lens[3] |-> Item("unscramble", num, k)]]

\* the section lengths one pattern may have: no item at all, or every split
\* of MaxItems items over the three sections
Shapes ==
    {l \in [1..3 -> 0..MaxItems] : l[1] + l[2] + l[3] \in {0, MaxItems}}

PatternLists ==
    UNION {{[i \in 1..n |-> MakePattern(i, f[i])] : f \in [1..n -> Shapes]}
           : n \in 0..MaxPatterns}

InitAlloc ==
    /\ selected_patterns \in PatternLists
    /\ target_count \in 0..MaxTarget
    /\ outcome = [raised |-> "NotCalled"]

Distribute ==
    /\ outcome.raised = "NotCalled"
    /\ outcome' = distribute_questions(selected_patterns, target_count)
    /\ UNCHANGED <<selected_patterns, target_count>>

----------------------------------------------------------------------------
(* Properties of distribute_questions (SpecAlloc) *)

Returned == outcome.raised = "None"

PatternCount == Len(selected_patterns)

\* the items pattern i holds in section s
Available(s, i) == Len(selected_patterns[i][s])

\* b + 1 for the first r patterns, b for the others (i is 1-based)
Quota(i) ==
    (target_count \div PatternCount)
    + (IF i <= target_count % PatternCount THEN 1 ELSE 0)

\* the items of pattern i in section s of the result
Share(s, i) ==
    Cardinality({p \in 1..Len(outcome.result[s]) :
                    ItemPattern(s, outcome.result[s][p]) = i})

RECURSIVE SumTo(_, _)
SumTo(f, n) == IF n = 0 THEN 0 ELSE f[n] + SumTo(f, n - 1)

SumShares(s) == SumTo([i \in 1..PatternCount |-> Share(s, i)], PatternCount)

TotalAvailable(s) == SumTo([i \in 1..PatternCount |-> Available(s, i)], PatternCount)

SumCapped(s) ==
    SumTo([i \in 1..PatternCount |-> Min(Quota(i), Available(s, i))], PatternCount)

\* C1 as stated (conservation): in every section the number of items taken
\* over all patterns equals min(target_count, items available in the section).
C1_Conservation ==
    Returned =>
        \A s \in SectionSet : SumShares(s) = Min(target_count, TotalAvailable(s))

\* C1 amended: in every section the number of items taken equals the sum over
\* the patterns of min(quota_i, available_i); it never exceeds
\* min(target_count, available), and reaches target_count when every pattern
\* holds at least its quota.
C1_CappedSum ==
    Returned =>
        \A s \in SectionSet :
            /\ SumShares(s) = SumCapped(s)
            /\ SumShares(s) <= Min(target_count, TotalAvailable(s))
            /\ (\A i \in 1..PatternCount : Available(s, i) >= Quota(i))
                   => SumShares(s) = target_count

\* a section falls short of min(target_count, available): one pattern lacks
\* items the other could have supplied
C1_Witness ==
    /\ Returned
    /\ PatternCount >= 2
    /\ \E s \in SectionSet : SumShares(s) < Min(target_count, TotalAvailable(s))

\* C2 as stated (fair share): within a section the largest and the smallest
\* per-pattern share differ by at most 1.
C2_FairShare ==
    Returned =>
        \A s \in SectionSet : \A i, j \in 1..PatternCount :
            Share(s, i) - Share(s, j) <= 1

\* C2 amended: within a section no pattern's share exceeds its quota, two
\* quotas differ by at most 1, and the shares of two patterns that both hold
\* at least their quota differ by at most 1.
C2_FairQuota ==
    Returned =>
        \A s \in SectionSet : \A i, j \in 1..PatternCount :
            /\ Share(s, i) <= Quota(i)
            /\ Quota(i) - Quota(j) <= 1
            /\ (Available(s, i) >= Quota(i) /\ Available(s, j) >= Quota(j))
                   => Share(s, i) - Share(s, j) <= 1

\* two shares of one section differ by 2 or more
C2_Witness ==
    /\ Returned
    /\ \E s \in SectionSet : \E i, j \in 1..PatternCount :
           /\ Share(s, i) - Share(s, j) >= 2
           /\ Available(s, j) < Quota(j)

\* C3 as stated (truncation): every section of the result has at most
\* target_count items and at most 5, whatever target_count is.
C3_AtMostTargetAndFive ==
    Returned =>
        \A s \in SectionSet :
            /\ Len(outcome.result[s]) <= target_count
            /\ Len(outcome.result[s]) <= 5

\* C3 amended: every section of the result has at most target_count items,
\* hence at most 5 when target_count <= 5.
C3_AtMostTarget ==
    Returned =>
        \A s \in SectionSet :
            /\ Len(outcome.result[s]) <= target_count
            /\ target_count <= 5 => Len(outcome.result[s]) <= 5

\* a call with target_count > 5 returned a section of more than 5 items
C3_Witness ==
    /\ Returned
    /\ target_count > 5
    /\ \E s \in SectionSet : Len(outcome.result[s]) > 5

\* C4 (empty selection): called with no pattern, distribute_questions raises
\* nothing and returns three empty sequences.
C4_EmptyReturnsEmpty ==
    (outcome.raised # "NotCalled" /\ PatternCount = 0) =>
        /\ Returned
        /\ \A s \in SectionSet : outcome.result[s] = <<>>

\* items taken from the patterns before pattern i, each capped by its stock
Offset(s, i) ==
    SumTo([j \in 1..PatternCount |->
              IF j < i THEN Min(Quota(j), Available(s, j)) ELSE 0], PatternCount)

\* the first target_count elements of the concatenation, in pattern order,
\* of each pattern's prefix of length min(quota_i, available_i)
ExpectedSection(s) ==
    [p \in 1..Min(target_count, SumCapped(s)) |->
        LET i == CHOOSE j \in 1..PatternCount :
                     Offset(s, j) < p /\ p <= Offset(s, j) + Min(Quota(j), Available(s, j))
        IN  selected_patterns[i][s][p - Offset(s, i)]]

\* C5 (order): each section of the result is the first target_count elements
\* of the concatenation, in pattern order, of the patterns' prefixes of length
\* min(quota_i, available_i); so the items of a pattern are contiguous and in
\* source order, and none is repeated or invented.
C5_PrefixConcatenation ==
    Returned =>
        \A s \in SectionSet :
            /\ outcome.result[s] = ExpectedSection(s)
            /\ \A p, q \in 1..Len(outcome.result[s]) :
                   p < q =>
                       LET a == outcome.result[s][p]
                           b == outcome.result[s][q]
                       IN  \/ ItemPattern(s, a) < ItemPattern(s, b)
                           \/ /\ ItemPattern(s, a) = ItemPattern(s, b)
                              /\ ItemIndex(s, a) < ItemIndex(s, b)
            /\ \A i \in 1..PatternCount :
                   Share(s, i) = Min(Quota(i), Available(s, i))

\* a remainder is handed out, one pattern holds fewer items than its quota
\* and another more, and both contribute
C5_Witness ==
    /\ Returned
    /\ PatternCount >= 2
    /\ target_count % PatternCount > 0
    /\ \E s \in SectionSet : \E i, j \in 1..PatternCount :
           /\ Available(s, i) < Quota(i)
           /\ Available(s, j) > Quota(j)
           /\ Share(s, i) > 0
           /\ Share(s, j) > 1

----------------------------------------------------------------------------
(* create_worksheet: the story (list of flowables) handed to doc.build *)

\* SpecLayout: a section of the content holds 0..MaxContent items
MaxContent == 6
\* SpecLayout: at most this many selected patterns named in the title
MaxTitlePatterns == 1

\* ParagraphStyle(name, fontSize=, fontName=, alignment=, spaceBefore=, spaceAfter=)
Style(name, fontSize, fontName, alignment, spaceBefore, spaceAfter) ==
    [name |-> name, fontSize |-> fontSize, fontName |-> fontName,
     alignment |-> alignment, spaceBefore |-> spaceBefore, spaceAfter |-> spaceAfter]

Paragraph(text, style) == [flowable |-> "Paragraph", text |-> text, style |-> style]

\* Spacer(1, h*inch), h in hundredths of an inch
Spacer(h) == [flowable |-> "Spacer", height |-> h]

\* Table(data, colWidths=) with one row; widths in inches
Table(row, colWidths) == [flowable |-> "Table", row |-> row, colWidths |-> colWidths]

SectionStyle == Style("Section", 10, "Helvetica-Bold", "LEFT", 0, 0)

\* ", ".join([str(p['pattern_num']) for p in selected_patterns])
PatternNums(patterns) == [i \in 1..Len(patterns) |-> patterns[i].pattern_num]

\* selected_patterns[0]['unit'] if selected_patterns else "Level A"
UnitName(patterns) == IF Len(patterns) > 0 THEN patterns[1].unit ELSE "Level A"

\* the two title lines, the NAME/DATE row and the spacer under it
HeaderBlocks(patterns) ==
    LET title_style == Style("Title", 12, "Helvetica-Bold", "CENTER", 0, 5)
    IN  << Paragraph(<<"Weekly Test">>, title_style),
           Paragraph(<<"Pattern ", UnitName(patterns), " - Patterns: ",
                       PatternNums(patterns)>>, title_style),
           Table(<< Paragraph(<<"NAME: _______________________________">>,
                              Style("Name", 12, "Helvetica", "LEFT", 0, 0)),
                    Paragraph(<<"DATE: _____ / _____">>,
                              Style("Date", 12, "Helvetica", "RIGHT", 0, 0)) >>,
                 <<5, 2>>),
           Spacer(15) >>

\* an item loop without the [:5]
NumberedItemsUncut(items, fontName) ==
    [idx \in 1..Len(items) |->
        Paragraph(<<idx, ". ", items[idx]>>, Style("Item", 9, fontName, "LEFT", 3, 3))]

\* for idx, x in enumerate(items[:5], 1): one numbered 'Item' paragraph each
NumberedItems(items, fontName) ==
    [idx \in 1..Len(PySlice(items, 5)) |->
        Paragraph(<<idx, ". ", PySlice(items, 5)[idx]>>,
                  Style("Item", 9, fontName, "LEFT", 3, 3))]

SpeakingIBlocks(content) ==
    << Paragraph(<<"Speaking I - Answer the questions">>, SectionStyle),
       Spacer(5),
       Paragraph(<<"PATTERN">>, Style("Pattern", 9, "Helvetica-Bold", "LEFT", 0, 0)),
       Spacer(5) >>
    \o NumberedItems(content.speaking1, "Helvetica")
    \o << Spacer(15) >>

SpeakingIIBlocks(content) ==
    << Paragraph(<<"Speaking II - Say in English">>, SectionStyle), Spacer(5) >>
    \o NumberedItems(content.speaking2, "KOREAN_FONT")
    \o << Spacer(15) >>

\* for idx in range(1, 6): "{idx}. Pattern {idx}"
SpeakingIIIBlocks(content) ==
    << Paragraph(<<"Speaking III - With your teacher">>, SectionStyle), Spacer(5) >>
    \o [idx \in 1..5 |->
           Paragraph(<<idx, ". Pattern ", idx>>,
                     Style("Item", 9, "Helvetica", "LEFT", 3, 3))]
    \o << Spacer(15) >>

\* "{idx}. {korean} ({words})"
UnscrambleItemLine(idx, item) ==
    Paragraph(<<idx, ". ", item[1], " (", item[2], ")">>,
              Style("Item", 9, "KOREAN_FONT", "LEFT", 4, 3))

\* "_" * 80
RuleLine == Paragraph(<<"_", 80>>, Style("Line", 9, "Helvetica", "LEFT", 0, 10))

\* the Unscramble loop from position idx on: per item, the item line and
\* the rule line
RECURSIVE UnscrambleLoop(_, _)
UnscrambleLoop(items, idx) ==
    IF idx > Len(items) THEN <<>>
    ELSE << UnscrambleItemLine(idx, items[idx]), RuleLine >>
         \o UnscrambleLoop(items, idx + 1)

\* a layout that emits every item line first and the rule lines after them
UnscrambleItemsThenRules(content) ==
    LET items == PySlice(content.unscramble, 5)
    IN  << Paragraph(<<"Unscramble">>, SectionStyle), Spacer(8) >>
        \o [idx \in 1..Len(items) |-> UnscrambleItemLine(idx, items[idx])]
        \o [idx \in 1..Len(items) |-> RuleLine]
        \o << Spacer(35) >>

\* heading, spacer, the Unscramble loop over the first 5 items, closing spacer
UnscrambleBlocks(content) ==
    << Paragraph(<<"Unscramble">>, SectionStyle), Spacer(8) >>
    \o UnscrambleLoop(PySlice(content.unscramble, 5), 1)
    \o << Spacer(35) >>

FooterBlocks ==
    LET footer_style == Style("Footer", 12, "Helvetica-Bold", "LEFT", 0, 0)
    IN  << Table(<< Paragraph(<<"GRADE:">>, footer_style),
                    "",
                    Paragraph(<<"REMARK:">>, footer_style) >>,
                 <<1, 2, 4>>) >>

create_worksheet(content, patterns) ==
    HeaderBlocks(patterns)
    \o SpeakingIBlocks(content)
    \o SpeakingIIBlocks(content)
    \o SpeakingIIIBlocks(content)
    \o UnscrambleBlocks(content)
    \o FooterBlocks

----------------------------------------------------------------------------
(* SpecLayout: inputs of create_worksheet *)

Contents ==
    {[speaking1 |-> [k \in 1..l[1] |-> Item("speaking1", 1, k)],
      speaking2 |-> [k \in 1..l[2] |-> Item("speaking2", 1, k)],
      unscramble |-> [k \in 1..l[3] |-> Item("unscramble", 1, k)]]
     : l \in [1..3 -> 0..MaxContent]}

TitlePatternLists ==
    {[i \in 1..n |-> MakePattern(i, <<0, 0, 0>>)] : n \in 0..MaxTitlePatterns}

InitLayout ==
    /\ pattern_data \in Contents
    /\ title_patterns \in TitlePatternLists
    /\ story = <<>>

CreateWorksheet ==
    /\ story = <<>>
    /\ story' = create_worksheet(pattern_data, title_patterns)
    /\ UNCHANGED <<pattern_data, title_patterns>>

----------------------------------------------------------------------------
(* Properties of create_worksheet (SpecLayout) *)

Built == story # <<>>

IsHeading(b, title) ==
    /\ b.flowable = "Paragraph"
    /\ b.style.name = "Section"
    /\ b.text = <<title>>

IsItemLine(b) == b.flowable = "Paragraph" /\ b.style.name = "Item"

IsRuleLine(b) == b.flowable = "Paragraph" /\ b.style.name = "Line"

HeadingPos(title) == CHOOSE p \in 1..Len(story) : IsHeading(story[p], title)

HeadingI == "Speaking I - Answer the questions"
HeadingII == "Speaking II - Say in English"
HeadingIII == "Speaking III - With your teacher"
HeadingU == "Unscramble"

\* the texts of the item lines between two positions of the story
ItemTexts(from, to) ==
    LET lines == SelectSeq(SubSeq(story, from, to), IsItemLine)
    IN  [i \in 1..Len(lines) |-> lines[i].text]

\* C6 (item lines): Speaking I, Speaking II and Unscramble each show exactly
\* min(5, length) item lines, numbered 1..k in content order; Speaking III
\* always shows the five placeholder lines 1..5.
C6_ItemLines ==
    Built =>
        /\ ItemTexts(HeadingPos(HeadingI), HeadingPos(HeadingII)) =
               [i \in 1..Min(5, Len(pattern_data.speaking1)) |->
                   <<i, ". ", pattern_data.speaking1[i]>>]
        /\ ItemTexts(HeadingPos(HeadingII), HeadingPos(HeadingIII)) =
               [i \in 1..Min(5, Len(pattern_data.speaking2)) |->
                   <<i, ". ", pattern_data.speaking2[i]>>]
        /\ ItemTexts(HeadingPos(HeadingIII), HeadingPos(HeadingU)) =
               [i \in 1..5 |-> <<i, ". Pattern ", i>>]
        /\ ItemTexts(HeadingPos(HeadingU), Len(story)) =
               [i \in 1..Min(5, Len(pattern_data.unscramble)) |->
                   <<i, ". ", pattern_data.unscramble[i][1], " (",
                     pattern_data.unscramble[i][2], ")">>]
        /\ ItemTexts(1, HeadingPos(HeadingI)) = <<>>

\* one section holds more than 5 items, one between 1 and 4, one none
C6_Witness ==
    /\ Built
    /\ Len(pattern_data.speaking1) > 5
    /\ Len(pattern_data.unscramble) \in 1..4
    /\ Len(pattern_data.speaking2) = 0
    /\ Len(title_patterns) > 0

\* what a block is in the document
Role(b) ==
    IF b.flowable = "Spacer" THEN "gap"
    ELSE IF b.flowable = "Table"
    THEN (IF Len(b.row) = 2 THEN "name_date" ELSE "footer")
    ELSE IF b.style.name = "Title" THEN "title"
    ELSE IF b.style.name = "Pattern" THEN "label"
    ELSE IF b.style.name = "Item" THEN "item"
    ELSE IF b.style.name = "Line" THEN "rule"
    ELSE IF b.text = <<HeadingI>> THEN "heading I"
    ELSE IF b.text = <<HeadingII>> THEN "heading II"
    ELSE IF b.text = <<HeadingIII>> THEN "heading III"
    ELSE IF b.text = <<HeadingU>> THEN "heading U"
    ELSE "other"

Roles == [p \in 1..Len(story) |-> Role(story[p])]

IsContentRole(r) == r \notin {"gap", "label"}

Repeat(r, n) == [i \in 1..n |-> r]

Shown(s) == Min(5, Len(pattern_data[s]))

\* the blocks of the Unscramble section after its heading
UnscrambleBody ==
    SelectSeq(SubSeq(Roles, HeadingPos(HeadingU) + 1, Len(story) - 1),
              LAMBDA r : r # "label")

\* the document order without the Unscramble body and the spacers: titles,
\* name/date row, each heading followed by its items, footer last
ContentOrder ==
    SelectSeq(SubSeq(Roles, 1, HeadingPos(HeadingU)), IsContentRole)
        = <<"title", "title", "name_date", "heading I">>
          \o Repeat("item", Shown("speaking1"))
          \o <<"heading II">> \o Repeat("item", Shown("speaking2"))
          \o <<"heading III">> \o Repeat("item", 5)
          \o <<"heading U">>
    /\ Roles[Len(story)] = "footer"

\* C7 as stated (block order): the document order above, and in Unscramble
\* every item is its item line, then a blank gap block, then the rule line,
\* then an inter-item gap, item after item.
C7_BlockOrder ==
    Built =>
        /\ ContentOrder
        /\ \E lead \in {<<>>, <<"gap">>} : \E tail \in {<<>>, <<"gap">>} :
           \E between \in {<<>>, <<"gap">>} :
               UnscrambleBody =
                   lead
                   \o [i \in 1..(Len(between) + 3) * Shown("unscramble") |->
                          (<<"item", "gap", "rule">> \o between)
                              [((i - 1) % (Len(between) + 3)) + 1]]
                   \o tail

\* C7 amended (block order): the document order above, with a spacer after
\* the name/date row, after each heading and at the end of each section and a
\* PATTERN label before the Speaking I items; in Unscramble every item is its
\* item line immediately followed by the rule line, item after item, with no
\* gap block in between: the inter-item gap is the rule line's space-after.
C7_BlockOrderNoGapBlock ==
    Built =>
        /\ ContentOrder
        /\ Roles =
               <<"title", "title", "name_date", "gap",
                 "heading I", "gap", "label", "gap">>
               \o Repeat("item", Shown("speaking1"))
               \o <<"gap", "heading II", "gap">>
               \o Repeat("item", Shown("speaking2"))
               \o <<"gap", "heading III", "gap">>
               \o Repeat("item", 5)
               \o <<"gap", "heading U", "gap">>
               \o [i \in 1..2 * Shown("unscramble") |->
                      IF i % 2 = 1 THEN "item" ELSE "rule"]
               \o <<"gap", "footer">>
        /\ \A i \in 1..Shown("unscramble") :
               LET p == HeadingPos(HeadingU) + 2 * i
               IN  /\ story[p].text[1] = i
                   /\ story[p].text[3] = pattern_data.unscramble[i][1]
                   /\ story[p].text[5] = pattern_data.unscramble[i][2]
                   /\ IsRuleLine(story[p + 1])
                   /\ story[p + 1].style.spaceAfter = 10

\* a worksheet with at least two Unscramble items
C7_Witness ==
    /\ Built
    /\ Len(pattern_data.unscramble) >= 2
    /\ Len(pattern_data.speaking1) >= 1

----------------------------------------------------------------------------
(* The uploaded workbook and load_patterns_from_excel *)

\* Spec: pattern numbers 1..MaxPatternNum occur in workbooks and requests
MaxPatternNum == 2
\* Spec: a workbook holds MaxDbItems rows per section for each of its patterns
MaxDbItems == 1
\* Spec: every selection of up to MaxSelLen entries is requested
MaxSelLen == 2
\* Spec: at most this many PDFs are written in one run
MaxOutputs == 1

\* len(selected_pattern_nums) > 5
MaxSelected == 5

None == "None"
\* no file at UploadPath
Missing == [sheets |-> {}, missing |-> TRUE]
UploadPath == "uploads/uploaded_database.xlsx"
\* an empty spreadsheet cell (values_only gives None)
EmptyCell == <<>>

\* the rows of "Pattern Details" for pattern num with c items per section:
\* (pattern_num, pattern_name, section, q_num, col_e, col_f, col_g)
DetailRows(num, c) ==
    [j \in 1..(3 * c) |->
        LET k == ((j - 1) \div 3) + 1
            sec == (j - 1) % 3
        IN  IF sec = 0 THEN <<num, <<"name", num>>, "Speaking I", k,
                              Item("speaking1", num, k), EmptyCell, EmptyCell>>
            ELSE IF sec = 1 THEN <<num, <<"name", num>>, "Speaking II", k,
                                   Item("speaking2", num, k), EmptyCell, EmptyCell>>
            ELSE <<num, <<"name", num>>, "Unscramble", k,
                   <<num, k>>, EmptyCell, <<"(", <<"words", num, k>>, ")">> >>]

RECURSIVE ConcatRows(_, _)
ConcatRows(counts, num) ==
    IF num > MaxPatternNum THEN <<>>
    ELSE DetailRows(num, counts[num]) \o ConcatRows(counts, num + 1)

\* the rows of "Pattern Overview": (pattern_num, pattern_name, total_q, unit),
\* the unit cell filled for odd pattern numbers and empty for even ones
OverviewRows ==
    [num \in 1..MaxPatternNum |->
        <<num, <<"name", num>>, 0,
          IF num % 2 = 1 THEN <<"Level B">> ELSE EmptyCell>>]

\* a well-formed workbook: both sheets, counts[num] items per section
Workbook(counts) ==
    [sheets |-> {"Pattern Overview", "Pattern Details"},
     overview |-> OverviewRows,
     details |-> ConcatRows(counts, 1)]

\* a workbook without the "Pattern Details" sheet
MalformedWorkbook ==
    [sheets |-> {"Pattern Overview"}, overview |-> OverviewRows, details |-> <<>>]

\* the "Pattern Overview" loop: pattern_info[num]['unit'], 'Level A' for an
\* empty unit cell
PatternInfo(overview) ==
    [num \in {overview[i][1] : i \in DOMAIN overview} |->
        LET row == overview[CHOOSE i \in DOMAIN overview :
                               /\ overview[i][1] = num
                               /\ \A j \in DOMAIN overview :
                                      overview[j][1] = num => j <= i]
        IN  [unit |-> IF row[4] = EmptyCell THEN "Level A" ELSE row[4][1]]]

GoodWorkbooks ==
    {Workbook([num \in 1..MaxPatternNum |-> IF num \in S THEN MaxDbItems ELSE 0])
     : S \in SUBSET (1..MaxPatternNum)}
Workbooks == GoodWorkbooks \cup {MalformedWorkbook}

\* col_g.strip('()') if col_g else ""
WordsStr(col_g) == IF col_g = EmptyCell THEN "" ELSE col_g[2]

\* the "Pattern Details" loop over rows i..len(rows), patterns being the
\* dict built so far (a function from pattern numbers to pattern records)
RECURSIVE LoadRows(_, _, _, _)
LoadRows(rows, i, pattern_info, patterns) ==
    IF i > Len(rows) THEN patterns
    ELSE
      LET row == rows[i]
          num == row[1]
          fresh == [pattern_num |-> num, pattern_name |-> row[2],
                    unit |-> IF num \in DOMAIN pattern_info
                             THEN pattern_info[num].unit ELSE "Level A",
                    speaking1 |-> <<>>, speaking2 |-> <<>>, unscramble |-> <<>>]
          known == IF num \in DOMAIN patterns THEN patterns
                   ELSE [n \in DOMAIN patterns \cup {num} |->
                            IF n = num THEN fresh ELSE patterns[n]]
          pat == known[num]
          upd == IF row[3] = "Speaking I"
                 THEN [pat EXCEPT !.speaking1 = Append(@, row[5])]
                 ELSE IF row[3] = "Speaking II"
                 THEN [pat EXCEPT !.speaking2 = Append(@, row[5])]
                 ELSE IF row[3] = "Unscramble"
                 THEN [pat EXCEPT !.unscramble = Append(@, <<row[5], WordsStr(row[7])>>)]
                 ELSE pat
      IN  LoadRows(rows, i + 1, pattern_info, [known EXCEPT ![num] = upd])

\* wb["Pattern Overview"] / wb["Pattern Details"] raise KeyError when the
\* sheet is absent
load_patterns_from_excel(wb) ==
    IF ~({"Pattern Overview", "Pattern Details"} \subseteq wb.sheets)
    THEN [raised |-> "KeyError"]
    ELSE [raised |-> "None", patterns |-> LoadRows(wb.details, 1, PatternInfo(wb.overview), <<>>)]

----------------------------------------------------------------------------
(* /upload_database *)

NoRequest == [route |-> "none"]
NoResponse == [kind |-> "none"]

ErrorResponse(status, message) ==
    [kind |-> "error", status |-> status, message |-> message]

Filenames ==
    {[stem |-> "", suffix |-> ""],
     [stem |-> "notes", suffix |-> ".txt"],
     [stem |-> "db", suffix |-> ".xlsx"]}

\* a request without the 'database' part, a workbook of every kind under
\* the name db.xlsx, and a well-formed workbook under each other name
UploadRequests ==
    {[route |-> "/upload_database", has_file |-> FALSE]}
    \cup {[route |-> "/upload_database", has_file |-> TRUE,
           filename |-> [stem |-> "db", suffix |-> ".xlsx"], content |-> w]
          : w \in Workbooks}
    \cup {[route |-> "/upload_database", has_file |-> TRUE, filename |-> f,
           content |-> Workbook([num \in 1..MaxPatternNum |-> MaxDbItems])]
          : f \in Filenames}

\* sorted(patterns.keys()) as a sequence
RECURSIVE SortedKeys(_)
SortedKeys(S) ==
    IF S = {} THEN <<>>
    ELSE LET m == CHOOSE x \in S : \A y \in S : x <= y
         IN  <<m>> \o SortedKeys(S \ {m})

\* the handler: what it returns and what it leaves in CURRENT_DB_PATH and
\* in the stored file
upload_database(req, path, stored) ==
    IF ~req.has_file
    THEN [response |-> ErrorResponse(400, <<"no file">>), path |-> path, stored |-> stored]
    ELSE IF req.filename.stem = "" /\ req.filename.suffix = ""
    THEN [response |-> ErrorResponse(400, <<"choose a file">>), path |-> path,
          stored |-> stored]
    ELSE IF req.filename.suffix # ".xlsx"
    THEN [response |-> ErrorResponse(400, <<"xlsx only">>), path |-> path,
          stored |-> stored]
    ELSE \* file.save(filepath); CURRENT_DB_PATH = filepath; then the load
         LET loaded == load_patterns_from_excel(req.content)
         IN  IF loaded.raised # None
             THEN [response |-> ErrorResponse(500, <<"load failed", loaded.raised>>),
                   path |-> UploadPath, stored |-> req.content]
             ELSE [response |->
                      [kind |-> "json", status |-> 200, success |-> TRUE,
                       patterns |-> SortedKeys(DOMAIN loaded.patterns)],
                   path |-> UploadPath, stored |-> req.content]

----------------------------------------------------------------------------
(* /generate *)

\* entries of the JSON list "patterns": numbers, and a non-numeric string
Entries == {<<"int", n>> : n \in 1..MaxPatternNum} \cup {<<"str", "abc">>}

Selections ==
    UNION {[1..k -> Entries] : k \in 0..MaxSelLen}
    \cup {[i \in 1..k |-> e] : e \in Entries, k \in (MaxSelLen + 1)..(MaxSelected + 1)}

GenerateRequests == {[route |-> "/generate", patterns |-> sel] : sel \in Selections}

\* a selection loop that skips an absent number and goes on
RECURSIVE SelectSkippingAbsent(_, _, _, _)
SelectSkippingAbsent(sel, i, all_patterns, chosen) ==
    IF i > Len(sel) THEN [raised |-> None, status |-> 200, patterns |-> chosen]
    ELSE IF sel[i][1] # "int" THEN [raised |-> "ValueError"]
    ELSE IF sel[i][2] \notin DOMAIN all_patterns
    THEN SelectSkippingAbsent(sel, i + 1, all_patterns, chosen)
    ELSE SelectSkippingAbsent(sel, i + 1, all_patterns,
                              Append(chosen, all_patterns[sel[i][2]]))

\* the selection loop from entry i on, chosen being selected_patterns so far:
\* int(num) raises ValueError on a non-numeric string, an absent number ends
\* the request with 404
RECURSIVE SelectPatterns(_, _, _, _)
SelectPatterns(sel, i, all_patterns, chosen) ==
    IF i > Len(sel) THEN [raised |-> None, status |-> 200, patterns |-> chosen]
    ELSE IF sel[i][1] # "int" THEN [raised |-> "ValueError"]
    ELSE IF sel[i][2] \notin DOMAIN all_patterns
    THEN [raised |-> None, status |-> 404, missing |-> sel[i][2]]
    ELSE SelectPatterns(sel, i + 1, all_patterns,
                        Append(chosen, all_patterns[sel[i][2]]))

\* the handler: the response and the functions called on the way
generate_worksheet(req, path, stored) ==
    LET sel == req.patterns
    IN
    IF Len(sel) = 0
    THEN [response |-> ErrorResponse(400, <<"select a pattern">>), calls |-> <<>>]
    ELSE IF Len(sel) > MaxSelected
    THEN [response |-> ErrorResponse(400, <<"at most 5 patterns">>), calls |-> <<>>]
    ELSE IF path = None \/ stored = Missing
    THEN [response |-> ErrorResponse(400, <<"upload a database first">>), calls |-> <<>>]
    ELSE
      LET loaded == load_patterns_from_excel(stored)
      IN
      IF loaded.raised # None
      THEN [response |-> ErrorResponse(500, <<loaded.raised>>),
            calls |-> <<"load_patterns_from_excel">>]
      ELSE
        LET chosen == SelectPatterns(sel, 1, loaded.patterns, <<>>)
        IN
        IF chosen.raised # None
        THEN [response |-> ErrorResponse(500, <<chosen.raised>>),
              calls |-> <<"load_patterns_from_excel">>]
        ELSE IF chosen.status = 404
        THEN [response |-> ErrorResponse(404, <<"pattern not found", chosen.missing>>),
              calls |-> <<"load_patterns_from_excel">>]
        ELSE
          LET distributed == distribute_questions(chosen.patterns, 5)
          IN
          IF distributed.raised # None
          THEN [response |-> ErrorResponse(500, <<distributed.raised>>),
                calls |-> <<"load_patterns_from_excel", "distribute_questions">>]
          ELSE [response |->
                   [kind |-> "file", status |-> 200,
                    download_name |-> <<"worksheet_patterns_", sel>>,
                    file |-> create_worksheet(distributed.result, chosen.patterns)],
                calls |-> <<"load_patterns_from_excel", "distribute_questions",
                            "create_worksheet", "send_file">>]

----------------------------------------------------------------------------
(* Spec: the two handlers over the process state *)

\* CURRENT_DB_PATH = None at import; the uploads folder is kept from earlier
\* runs (os.makedirs(..., exist_ok=True)), so the file may already be there
InitHttp ==
    /\ CURRENT_DB_PATH = None
    /\ uploaded_database \in {Missing} \cup Workbooks
    /\ n_outputs = 0
    /\ request = NoRequest
    /\ response = NoResponse
    /\ calls = <<>>

UploadDatabase ==
    \E req \in UploadRequests :
        LET r == upload_database(req, CURRENT_DB_PATH, uploaded_database)
        IN  /\ request' = req
            /\ response' = r.response
            /\ CURRENT_DB_PATH' = r.path
            /\ uploaded_database' = r.stored
            /\ calls' = <<>>
            /\ UNCHANGED n_outputs

GenerateWorksheet ==
    \E req \in GenerateRequests :
        LET r == generate_worksheet(req, CURRENT_DB_PATH, uploaded_database)
            wrote == IF r.response.kind = "file" THEN 1 ELSE 0
        IN  /\ n_outputs + wrote <= MaxOutputs
            /\ request' = req
            /\ response' = r.response
            /\ calls' = r.calls
            /\ n_outputs' = n_outputs + wrote
            /\ UNCHANGED <<CURRENT_DB_PATH, uploaded_database>>

\* the stored file is removed from the uploads folder from outside the
\* process; os.path.exists(CURRENT_DB_PATH) is then false
RemoveUploadedFile ==
    /\ uploaded_database # Missing
    /\ uploaded_database' = Missing
    /\ UNCHANGED <<CURRENT_DB_PATH, n_outputs, request, response, calls>>

----------------------------------------------------------------------------
(* The specifications *)

IdleAlloc ==
    /\ selected_patterns = <<>>
    /\ target_count = 0
    /\ outcome = [raised |-> "NotCalled"]

IdleLayout ==
    /\ pattern_data = [s \in SectionSet |-> <<>>]
    /\ title_patterns = <<>>
    /\ story = <<>>

IdleHttp ==
    /\ CURRENT_DB_PATH = None
    /\ uploaded_database = Missing
    /\ n_outputs = 0
    /\ request = NoRequest
    /\ response = NoResponse
    /\ calls = <<>>

NextAlloc == Distribute /\ UNCHANGED <<layoutVars, httpVars>>

NextLayout == CreateWorksheet /\ UNCHANGED <<allocVars, httpVars>>

Next ==
    \/ UploadDatabase /\ UNCHANGED <<allocVars, layoutVars>>
    \/ GenerateWorksheet /\ UNCHANGED <<allocVars, layoutVars>>
    \/ RemoveUploadedFile /\ UNCHANGED <<allocVars, layoutVars>>

AllocStart == InitAlloc /\ IdleLayout /\ IdleHttp

LayoutStart == IdleAlloc /\ InitLayout /\ IdleHttp

Init == IdleAlloc /\ IdleLayout /\ InitHttp

SpecAlloc == AllocStart /\ [][NextAlloc]_vars

SpecLayout == LayoutStart /\ [][NextLayout]_vars

Spec == Init /\ [][Next]_vars

----------------------------------------------------------------------------
(* Properties of the request handlers (Spec) *)

Range(f) == {f[i] : i \in DOMAIN f}

\* the pattern numbers that have a row in the stored workbook
StoredNumbers ==
    IF uploaded_database = Missing THEN {}
    ELSE {uploaded_database.details[i][1] : i \in DOMAIN uploaded_database.details}

\* the request cannot be served: nothing selected, more than 5 selected, no
\* database uploaded, or a requested number that the database does not hold
Unservable(req) ==
    \/ Len(req.patterns) = 0
    \/ Len(req.patterns) > 5
    \/ CURRENT_DB_PATH = None
    \/ uploaded_database = Missing
    \/ \E i \in DOMAIN req.patterns :
           /\ req.patterns[i][1] = "int"
           /\ req.patterns[i][2] \notin StoredNumbers

\* every entry before position i is a number the database holds
AllServedBefore(req, i) ==
    \A j \in 1..(i - 1) :
        /\ req.patterns[j][1] = "int"
        /\ req.patterns[j][2] \in StoredNumbers

\* C9 (errors of /generate): a /generate request that cannot be served gets
\* an error response with a message, runs neither distribute_questions nor
\* create_worksheet and writes and returns no file; the first absent number
\* ends the request with 404 naming that number.
C9_GenerateRejects ==
    [][(/\ request'.route = "/generate"
        /\ UNCHANGED <<CURRENT_DB_PATH, uploaded_database>>
        /\ Unservable(request'))
       =>
       (/\ response'.kind = "error"
        /\ response'.status \in {400, 404, 500}
        /\ response'.message # <<>>
        /\ "distribute_questions" \notin Range(calls')
        /\ "create_worksheet" \notin Range(calls')
        /\ "send_file" \notin Range(calls')
        /\ n_outputs' = n_outputs
        /\ \A i \in DOMAIN request'.patterns :
               (/\ Len(request'.patterns) <= 5
                /\ CURRENT_DB_PATH # None
                /\ uploaded_database \in GoodWorkbooks
                /\ AllServedBefore(request', i)
                /\ request'.patterns[i][1] = "int"
                /\ request'.patterns[i][2] \notin StoredNumbers)
               => /\ response'.status = 404
                  /\ response'.message = <<"pattern not found", request'.patterns[i][2]>>)
    ]_vars

\* a request for a stored pattern followed by an absent one was refused
C9_Witness ==
    /\ request.route = "/generate"
    /\ Len(request.patterns) = 2
    /\ CURRENT_DB_PATH # None
    /\ uploaded_database \in GoodWorkbooks
    /\ request.patterns[1][1] = "int"
    /\ request.patterns[1][2] \in StoredNumbers
    /\ request.patterns[2][1] = "int"
    /\ request.patterns[2][2] \notin StoredNumbers
    /\ response.kind = "error"
    /\ response.status = 404
    /\ calls = <<"load_patterns_from_excel">>

\* C10 (failed upload changes nothing): an /upload_database request that
\* returns an error leaves CURRENT_DB_PATH and the stored file as they were.
C10_FailedUploadKeepsDatabase ==
    [][(/\ request'.route = "/upload_database"
        /\ response'.kind = "error"
        /\ ~(uploaded_database # Missing /\ uploaded_database' = Missing))
       => UNCHANGED <<CURRENT_DB_PATH, uploaded_database>>
    ]_vars

====
